---- MODULE Spec2Model ----
(***************************************************************************)
(* md-parser: the event reducer of MarkdownParser::parse, the placeholder  *)
(* scanner it applies to every finalized section, the edge builder and the *)
(* frontmatter stripper that runs in front of it.                          *)
(*                                                                         *)
(* Text is a sequence of one-character strings.  Option<T> is a sequence   *)
(* of length 0 (None) or 1 (Some).                                         *)
(***************************************************************************)
EXTENDS Integers, Sequences, FiniteSets, TLC

\* ------------------------------------------------------------- bounds
\* events fed to the reducer in one parse call
MaxEvents == 5
\* events of a well-nested stream
MaxNestedEvents == 5
\* events of a block-structured stream
MaxBlockEvents == 6
\* events fed to the reducer when the input is drawn from Contents
MaxFmEvents == 1
\* lines of an input text handed to strip_frontmatter
MaxLines == 3
\* events of the stream of a text that is parsed twice
MaxTwiceEvents == 2
MaxBothEvents == 2
MaxRecordEvents == 3
MaxFairEvents == 2
\* leading spaces of a line handed to extract_checklist_items
MaxIndent == 3
\* pieces an item text or a text with placeholders is made of
MaxPieces == 2
\* lines of a text handed to extract_checklist_items
MaxTextLines == 3

\* ------------------------------------------------------------- Option
None == <<>>

Some(v) == <<v>>

\* ------------------------------------------------------------- text
Front(s) == SubSeq(s, 1, Len(s) - 1)

Last(s) == s[Len(s)]

\* U+00A0 NO-BREAK SPACE: one character, two bytes in UTF-8
NBSP == "nbsp"

\* White_Space: what str::trim strips and the regex class \s matches
Whitespace == {" ", "\n", "\t", NBSP}

\* the regex class \w
WordChars == {"a", "b", "t", "_", "1"}

\* byte value of a character (String ordering is byte-wise)
CharCode(c) ==
    CASE c = "\t" -> 9
      [] c = "\n" -> 10
      [] c = " " -> 32
      [] c = "-" -> 45
      [] c = "1" -> 49
      [] c = "_" -> 95
      [] c = "a" -> 97
      [] c = "b" -> 98
      [] c = "t" -> 116
      [] c = "{" -> 123
      [] c = "}" -> 125

\* str::trim: strip leading and trailing whitespace
Trim(s) ==
    LET keep == {i \in 1..Len(s) : s[i] \notin Whitespace}
    IN  IF keep = {} THEN <<>>
        ELSE LET lo == CHOOSE i \in keep : \A j \in keep : i <= j
                 hi == CHOOSE i \in keep : \A j \in keep : j <= i
             IN  SubSeq(s, lo, hi)

\* length of the maximal run of word characters of s starting at position i
RECURSIVE WordRun(_, _)
WordRun(s, i) ==
    IF i <= Len(s) /\ s[i] \in WordChars THEN 1 + WordRun(s, i + 1) ELSE 0

MatchAtAnyName(s, i) ==
    LET w == WordRun(s, i + 2)
    IN  /\ i + 1 <= Len(s)
        /\ s[i] = "{"
        /\ s[i + 1] = "{"
        /\ i + w + 3 <= Len(s)
        /\ s[i + w + 2] = "}"
        /\ s[i + w + 3] = "}"

\* VARIABLE_REGEX \{\{(\w+)\}\} matches at position i of s
MatchAt(s, i) ==
    LET w == WordRun(s, i + 2)
    IN  /\ i + 1 <= Len(s)
        /\ s[i] = "{"
        /\ s[i + 1] = "{"
        /\ w >= 1
        /\ i + w + 3 <= Len(s)
        /\ s[i + w + 2] = "}"
        /\ s[i + w + 3] = "}"

\* captures_iter: leftmost non-overlapping matches from position i on
RECURSIVE ScanFrom(_, _)
ScanFrom(s, i) ==
    IF i > Len(s) THEN <<>>
    ELSE IF MatchAt(s, i)
         THEN LET w == WordRun(s, i + 2)
              IN  <<SubSeq(s, i + 2, i + w + 1)>> \o ScanFrom(s, i + w + 4)
         ELSE ScanFrom(s, i + 1)

extract_variables(content) == ScanFrom(content, 1)

\* Regex::is_match
has_variables(content) == \E i \in 1..Len(content) : MatchAt(content, i)

\* Regex::find_iter(content).count(): the same leftmost non-overlapping matches
count_variables(content) == Len(ScanFrom(content, 1))

\* String's Ord: lexicographic by bytes, a proper prefix is smaller
RECURSIVE StrLess(_, _)
StrLess(u, v) ==
    IF v = <<>> THEN FALSE
    ELSE IF u = <<>> THEN TRUE
    ELSE IF CharCode(Head(u)) # CharCode(Head(v))
         THEN CharCode(Head(u)) < CharCode(Head(v))
         ELSE StrLess(Tail(u), Tail(v))

\* insert x into the ascending sequence s, after the elements equal to it
RECURSIVE InsertSorted(_, _)
InsertSorted(x, s) ==
    IF s = <<>> THEN <<x>>
    ELSE IF StrLess(x, Head(s)) THEN <<x>> \o s
    ELSE <<Head(s)>> \o InsertSorted(x, Tail(s))

\* Vec::sort
RECURSIVE Sort(_)
Sort(s) == IF s = <<>> THEN <<>> ELSE InsertSorted(Head(s), Sort(Tail(s)))

\* Vec::dedup: drop every element equal to its predecessor
RECURSIVE Dedup(_)
Dedup(s) ==
    IF Len(s) <= 1 THEN s
    ELSE IF s[1] = s[2] THEN Dedup(Tail(s))
    ELSE <<s[1]>> \o Dedup(Tail(s))

\* the orders in which a HashSet of these elements may be iterated
Enumerations(S) ==
    {f \in [1..Cardinality(S) -> S] : \A i, j \in 1..Cardinality(S) : f[i] = f[j] => i = j}

\* the HashSet extract_unique_variables collects the names of content into
collected(content) == {extract_variables(content)[i] : i \in 1..Len(extract_variables(content))}

extract_unique_variables_keep(content, order) == Sort(extract_variables(content))

\* extract_unique_variables: the HashSet of the names of content, iterated in the
\* order `order` (one of Enumerations(collected(content))), then sorted
extract_unique_variables(content, order) == Sort(order)

\* ------------------------------------------------------------- checklist
\* bytes of a character in UTF-8
Utf8Len(c) == IF c = NBSP THEN 2 ELSE 1

\* str::len: the length in bytes
RECURSIVE ByteLen(_)
ByteLen(s) == IF s = <<>> THEN 0 ELSE Utf8Len(Head(s)) + ByteLen(Tail(s))

\* length of the maximal run of whitespace of s starting at position i
RECURSIVE SpaceRun(_, _)
SpaceRun(s, i) ==
    IF i <= Len(s) /\ s[i] \in Whitespace THEN 1 + SpaceRun(s, i + 1) ELSE 0

\* the positions of character c in s
PositionsOf(c, s) == {i \in 1..Len(s) : s[i] = c}

Min(S) == CHOOSE x \in S : \A y \in S : x <= y

\* str::split(c): the pieces between the occurrences of c
RECURSIVE Split(_, _)
Split(s, c) ==
    IF PositionsOf(c, s) = {} THEN <<s>>
    ELSE LET i == Min(PositionsOf(c, s))
         IN  <<SubSeq(s, 1, i - 1)>> \o Split(SubSeq(s, i + 1, Len(s)), c)

\* str::lines: split at "\n", a final empty piece dropped
str_lines(text) ==
    LET pieces == Split(text, "\n")
    IN  IF Last(pieces) = <<>> THEN Front(pieces) ELSE pieces

\* CHECKLIST_REGEX ^(\s*)- \[([ xX])\] (.+)$ on a line: the three groups, or None
checklist_captures(line) ==
    LET k == SpaceRun(line, 1)
    IN  IF /\ Len(line) >= k + 7
           /\ SubSeq(line, k + 1, k + 3) = <<"-", " ", "[">>
           /\ line[k + 4] \in {" ", "x", "X"}
           /\ SubSeq(line, k + 5, k + 6) = <<"]", " ">>
        THEN Some([indent_str |-> SubSeq(line, 1, k),
                   checked_char |-> line[k + 4],
                   text |-> SubSeq(line, k + 7, Len(line))])
        ELSE None

\* AC_REF_REGEX \(AC:\s*([^)]+)\) matches at position p of text
AcMatchAt(text, p) ==
    /\ p + 3 <= Len(text)
    /\ SubSeq(text, p, p + 3) = <<"(", "A", "C", ":">>
    /\ \E q \in (p + 5)..Len(text) :
          /\ text[q] = ")"
          /\ \A j \in (p + 4)..(q - 1) : text[j] # ")"

\* group 1 of the match at p: what lies between "(AC:" and the next ")", without
\* the whitespace \s* took (it gives the last one back when there is nothing else)
AcGroup(text, p) ==
    LET q == Min({j \in (p + 4)..Len(text) : text[j] = ")"})
        inner == SubSeq(text, p + 4, q - 1)
        w == SpaceRun(inner, 1)
    IN  IF w = Len(inner) THEN <<Last(inner)>> ELSE SubSeq(inner, w + 1, Len(inner))

\* the pieces trimmed, the empty ones dropped
RECURSIVE TrimmedNonEmpty(_)
TrimmedNonEmpty(pieces) ==
    IF pieces = <<>> THEN <<>>
    ELSE IF Trim(Head(pieces)) = <<>> THEN TrimmedNonEmpty(Tail(pieces))
    ELSE <<Trim(Head(pieces))>> \o TrimmedNonEmpty(Tail(pieces))

Max(S) == CHOOSE x \in S : \A y \in S : y <= x

extract_ac_refs_last(text) ==
    LET starts == {p \in 1..Len(text) : AcMatchAt(text, p)}
    IN  IF starts = {} THEN <<>>
        ELSE TrimmedNonEmpty(Split(AcGroup(text, Max(starts)), ","))

\* extract_ac_refs: Regex::captures takes the leftmost match
extract_ac_refs(text) ==
    LET starts == {p \in 1..Len(text) : AcMatchAt(text, p)}
    IN  IF starts = {} THEN <<>>
        ELSE TrimmedNonEmpty(Split(AcGroup(text, Min(starts)), ","))

IsCheckedLower(c) == c = "x"

\* checked_char.eq_ignore_ascii_case("x")
IsChecked(c) == c \in {"x", "X"}

\* (indent_str.len() / 2) as u32
indent_of(indent_str) == ByteLen(indent_str) \div 2

\* the loop of extract_checklist_items over the lines
RECURSIVE ItemsOfLines(_)
ItemsOfLines(ls) ==
    IF ls = <<>> THEN <<>>
    ELSE LET caps == checklist_captures(Head(ls))
         IN  (IF caps = None THEN <<>>
              ELSE <<[text |-> caps[1].text,
                      checked |-> IsChecked(caps[1].checked_char),
                      indent |-> indent_of(caps[1].indent_str),
                      ac_refs |-> extract_ac_refs(caps[1].text)]>>)
             \o ItemsOfLines(Tail(ls))

extract_checklist_items(content) == ItemsOfLines(str_lines(content))

\* items.iter().filter(|item| item.checked).count()
RECURSIVE CountChecked(_)
CountChecked(items) ==
    IF items = <<>> THEN 0
    ELSE (IF Head(items).checked THEN 1 ELSE 0) + CountChecked(Tail(items))

percentage_of_truncated(completed, total) ==
    IF total > 0
    THEN [num |-> (completed \div total) * 100, den |-> 1]
    ELSE [num |-> 0, den |-> 1]

\* (completed as f64 / total as f64) * 100.0, or 0.0: the value as the fraction
\* num/den (the rounding of f64, below 2^-52 of the value, is left out)
percentage_of(completed, total) ==
    IF total > 0
    THEN [num |-> completed * 100, den |-> total]
    ELSE [num |-> 0, den |-> 1]

\* ChecklistSummary::from_items
from_items(items) ==
    LET total == Len(items)
        completed == CountChecked(items)
    IN  [total |-> total,
         completed |-> completed,
         pending |-> total - completed,
         percentage |-> percentage_of(completed, total)]

is_complete_vacuous(summary) == summary.completed = summary.total

\* ChecklistSummary::is_complete
is_complete(summary) == summary.total > 0 /\ summary.completed = summary.total

\* ChecklistSummary::is_empty
is_empty(summary) == summary.total = 0 \/ summary.completed = 0

\* ------------------------------------------------------------- frontmatter
\* An input text is a sequence of lines; a line is one of these.
Lines == {"", "---", "---x", "k: v", "text", "- [x] a", "  - [ ] b"}

\* the characters of a line
LineChars(line) ==
    CASE line = "" -> <<>>
      [] line = "---" -> <<"-", "-", "-">>
      [] line = "---x" -> <<"-", "-", "-", "x">>
      [] line = "x" -> <<"x">>
      [] line = "k: v" -> <<"k", ":", " ", "v">>
      [] line = "text" -> <<"t", "e", "x", "t">>
      [] line = "- [x] a" -> <<"-", " ", "[", "x", "]", " ", "a">>
      [] line = "  - [ ] b" -> <<" ", " ", "-", " ", "[", " ", "]", " ", "b">>

\* the pieces joined with "\n" between them
RECURSIVE Join(_)
Join(pieces) ==
    IF pieces = <<>> THEN <<>>
    ELSE IF Len(pieces) = 1 THEN pieces[1]
    ELSE pieces[1] \o <<"\n">> \o Join(Tail(pieces))

\* the characters of a text given by its lines
TextOf(ls) == Join([i \in 1..Len(ls) |-> LineChars(ls[i])])

\* all input texts of at most k lines
TextsUpTo(k) == UNION {[1..m -> Lines] : m \in 0..k}

Contents == TextsUpTo(MaxLines)

\* str::starts_with("---") on a line
StartsWithDashes(line) == line \in {"---", "---x"}

\* what follows the three dashes on such a line
DashRest(line) == IF line = "---x" THEN "x" ELSE ""

\* str::trim_start (on lines) and str::trim_start_matches('\n'): drop the leading
\* empty lines
RECURSIVE DropLeadingEmpty(_)
DropLeadingEmpty(ls) ==
    IF ls # <<>> /\ Head(ls) = "" THEN DropLeadingEmpty(Tail(ls)) ELSE ls

\* serde_yaml::from_str::<HashMap<String, Value>>: blank lines and "key: value"
\* entries make a mapping, anything else does not
YamlOk(yaml) == \A i \in 1..Len(yaml) : yaml[i] \in {"", "k: v"}

\* the opening delimiter is present
HasOpening(text) ==
    LET trimmed == DropLeadingEmpty(text)
    IN  trimmed # <<>> /\ StartsWithDashes(trimmed[1])

\* what follows the opening dashes: the rest of their line, then the other lines
AfterFirstDelimiter(text) ==
    LET trimmed == DropLeadingEmpty(text)
    IN  <<DashRest(trimmed[1])>> \o Tail(trimmed)

\* str::find("\n---"): the lines (after the first) that start with three dashes
ClosingAt(after) == {j \in 2..Len(after) : StartsWithDashes(after[j])}

strip_frontmatter_swallow(text) ==
    [ok |-> TRUE, content |-> text, frontmatter |-> None]

\* strip_frontmatter: [ok, content, frontmatter]; ok = FALSE is
\* Err(ParseError::FrontmatterError)
strip_frontmatter(text) ==
    IF ~HasOpening(text)
    THEN [ok |-> TRUE, content |-> text, frontmatter |-> None]
    ELSE LET after == AfterFirstDelimiter(text)
         IN  IF ClosingAt(after) = {}
             THEN [ok |-> TRUE, content |-> text, frontmatter |-> None]
             ELSE LET end_idx == CHOOSE j \in ClosingAt(after) :
                                    \A k \in ClosingAt(after) : j <= k
                      yaml_content == IF after[1] = ""
                                      THEN SubSeq(after, 2, end_idx - 1)
                                      ELSE SubSeq(after, 1, end_idx - 1)
                      remaining == DropLeadingEmpty(
                                       <<DashRest(after[end_idx])>>
                                       \o SubSeq(after, end_idx + 1, Len(after)))
                  IN  IF YamlOk(yaml_content)
                      THEN [ok |-> TRUE, content |-> remaining,
                            frontmatter |->
                                Some({yaml_content[i] : i \in
                                     {k \in 1..Len(yaml_content) :
                                          yaml_content[k] # ""}})]
                      ELSE [ok |-> FALSE, content |-> <<>>, frontmatter |-> None]

\* ------------------------------------------------------------- state
VARIABLES
    pc,                  \* "start", "events", "done" (Ok returned), "error" (Err returned)
    frontmatter_feature, \* cfg(feature = "frontmatter")
    content,             \* the text parse works on
    frontmatter,         \* Option of the parsed mapping
    sections,
    current_content,
    current_type,
    current_level,
    order_idx,
    all_variables,
    title,
    blockquote_depth,
    list_depth,
    edges,               \* built when the stream has ended
    result,              \* what parse returned: None, Some("Ok") or Some("FrontmatterError");
                         \* with "Ok" the document is title, sections, all_variables (as
                         \* variables), edges and frontmatter, which move into it
    n,                   \* events taken from the event source so far
    limit,               \* length of the event stream
    \* the event source's side: what the stream delivered so far
    source_mode,         \* "free": any event may come next; "nested": the stream is well
                         \* nested; "blocks": well nested, and block elements and rules come
                         \* only at top level or directly inside a List or BlockQuote, text
                         \* only inside an element (the streams of a Markdown tokenizer)
    open,                \* well-nested streams: the stack of open elements, each with the
                         \* text received while it was open
    flat,                \* only top-level Heading/Paragraph/CodeBlock/Table elements so far
    nested_paras,        \* trimmed texts of the closed Paragraphs that sat in a List or BlockQuote
    rule_events,         \* Rule events delivered so far
    tape,                \* "record": the events delivered; "replay": the events to deliver
    generate_ids,        \* MarkdownParser.generate_ids
    issued,              \* UUIDs generated so far by Uuid::new_v4
    checklist_items,     \* the document's checklist items
    first,               \* Option of the document a first parse call on the same text returned
    input,               \* the text handed to parse, or to a function of the library
    call,                \* Option of the last call of a function of the library:
                         \* [fn, arg, ret]
    lazy,                \* for each static LazyLock<Regex>, how often its initialiser ran
    running,             \* concurrent calls: the call (1 or 2) whose step comes next
    parked,              \* concurrent calls: Option of the state of the other call
    alone                \* the calls that ran alone before, each with its document

vars == <<pc, frontmatter_feature, content, frontmatter, sections, current_content,
          current_type, current_level, order_idx, all_variables, title,
          blockquote_depth, list_depth, edges, result, n, limit,
          source_mode, open, flat, nested_paras, rule_events, tape,
          generate_ids, issued, checklist_items, first, input, call,
          lazy, running, parked, alone>>

reducer == <<sections, current_content, current_type, current_level, order_idx,
             all_variables, title, blockquote_depth, list_depth, issued, lazy>>

source == <<source_mode, open, flat, nested_paras, rule_events, tape>>

\* what a handler of the event loop never touches
outside == <<generate_ids, checklist_items, first, input, call, running, parked, alone>>

\* ------------------------------------------------------------- inputs
\* heading levels the streams use (HeadingLevel is H1..H6)
HeadingLevels == {1, 2}

\* payloads of Text and Code events: " ", "t", "{{a}}", "{{b}}"
Payloads ==
    { <<" ">>, <<"t">>, <<"{", "{", "a", "}", "}">>, <<"{", "{", "b", "}", "}">> }

\* the payloads without placeholders
PlainPayloads == { <<" ">>, <<"t">> }

Containers == {"List", "BlockQuote"}

FlatTags == {"Heading", "Paragraph", "CodeBlock", "Table"}

\* ------------------------------------------------------------- event source
\* An element stays "pure" while all it received is Start/End of its own tag or of
\* Paragraph, text, breaks and events the reducer ignores.
KeepsPure(e, tag) == e.pure /\ tag \in {e.tag, "Paragraph"}

InContainer(stack) == \E i \in 1..Len(stack) : stack[i].tag \in Containers

Tracked == source_mode \in {"nested", "blocks"}

\* the event e is delivered: a recorded stream keeps it, a replayed stream delivers
\* what was recorded
Delivers(e) ==
    /\ source_mode = "replay" => (n < Len(tape) /\ tape[n + 1] = e)
    /\ tape' = IF source_mode = "record" THEN Append(tape, e) ELSE tape

\* the next event sits at top level or directly inside a List or BlockQuote
AtBlockLevel == IF open = <<>> THEN TRUE ELSE Last(open).tag \in Containers

SourceStart(tag, level) ==
    /\ source_mode = "blocks" => AtBlockLevel
    /\ Delivers(<<"Start", tag, level>>)
    /\ open' = IF Tracked
               THEN Append([i \in 1..Len(open) |->
                               [open[i] EXCEPT !.pure = KeepsPure(open[i], tag)]],
                           [tag |-> tag, level |-> level, text |-> <<>>, pure |-> TRUE])
               ELSE open
    /\ flat' = (Tracked /\ flat /\ open = <<>> /\ tag \in FlatTags)
    /\ UNCHANGED <<source_mode, nested_paras, rule_events>>

\* a well-nested stream ends only the element on top of the stack
SourceEnd(tag) ==
    /\ Tracked => (IF open = <<>> THEN FALSE ELSE Last(open).tag = tag)
    /\ Delivers(<<"End", tag>>)
    /\ open' = IF Tracked
               THEN [i \in 1..(Len(open) - 1) |->
                        [open[i] EXCEPT !.pure = KeepsPure(open[i], tag)]]
               ELSE open
    /\ nested_paras' =
           IF /\ Tracked
              /\ tag = "Paragraph"
              /\ InContainer(Front(open))
              /\ Trim(Last(open).text) # <<>>
           THEN nested_paras \cup {Trim(Last(open).text)}
           ELSE nested_paras
    /\ UNCHANGED <<source_mode, flat, rule_events>>

SourceText(text) ==
    /\ Tracked => text \in PlainPayloads \cup {<<"\n">>}
    /\ source_mode = "blocks" => open # <<>>
    /\ Delivers(<<"Text", text>>)
    /\ open' = [i \in 1..Len(open) |-> [open[i] EXCEPT !.text = @ \o text]]
    /\ flat' = (Tracked /\ flat /\ open # <<>>)
    /\ UNCHANGED <<source_mode, nested_paras, rule_events>>

SourceRule ==
    /\ source_mode = "blocks" => AtBlockLevel
    /\ Delivers(<<"Rule">>)
    /\ open' = [i \in 1..Len(open) |-> [open[i] EXCEPT !.pure = FALSE]]
    /\ flat' = FALSE
    /\ rule_events' = rule_events + 1
    /\ UNCHANGED <<source_mode, nested_paras>>

\* a well-nested stream ends with every element closed
SourceDone ==
    /\ Tracked => open = <<>>
    /\ source_mode = "replay" => n = Len(tape)
    /\ UNCHANGED source

SourceOther ==
    /\ Delivers(<<"Other">>)
    /\ flat' = (Tracked /\ flat /\ open # <<>>)
    /\ UNCHANGED <<source_mode, open, nested_paras, rule_events>>

\* ------------------------------------------------------------- reducer
\* the `for event in parser` loop hands over one more event
Taking ==
    /\ pc = "events"
    /\ n < limit
    /\ n' = n + 1
    /\ UNCHANGED <<pc, frontmatter_feature, content, frontmatter, edges, result, limit>>
    /\ UNCHANGED outside

ShouldEmitBlank(st, trimmed) == st # None

\* flush_section pushes a section: a type is active and the trimmed buffer is not empty
ShouldEmit(st, trimmed) == st # None /\ trimmed # <<>>

\* Uuid::new_v4().to_string(), k UUIDs generated before it: a non-empty string no
\* earlier call returned
new_v4(k) == <<k + 1>>

generate_id_once(k) == IF generate_ids THEN new_v4(0) ELSE <<>>

\* generate_id: a new UUID, or the empty string
generate_id(k) == IF generate_ids THEN new_v4(k) ELSE <<>>

\* UUIDs generated after one more call of generate_id
generated(k) == IF generate_ids THEN k + 1 ELSE k

\* the statics of variables.rs and checklist.rs
Statics == {"VARIABLE_REGEX", "CHECKLIST_REGEX", "AC_REF_REGEX"}

\* a static is dereferenced (LazyLock::force): its initialiser runs when it never
\* ran before
force(l, name) == IF l[name] = 0 THEN [l EXCEPT ![name] = 1] ELSE l

\* extract_checklist_items dereferences CHECKLIST_REGEX for a line, and
\* AC_REF_REGEX (in extract_ac_refs) for a line that matched
checklist_forces(l, text) ==
    LET ls == str_lines(text)
    IN  IF ls = <<>> THEN l
        ELSE IF \E i \in 1..Len(ls) : checklist_captures(ls[i]) # None
             THEN force(force(l, "CHECKLIST_REGEX"), "AC_REF_REGEX")
             ELSE force(l, "CHECKLIST_REGEX")

\* flush_section: the vectors, the index, the UUID count and the statics after it;
\* it always leaves the buffer empty, the type None and the level None
flush_section ==
    LET trimmed == Trim(current_content)
        variables == extract_variables(trimmed)
    IN  IF ShouldEmit(current_type, trimmed)
        THEN [sections |-> Append(sections,
                               [id |-> generate_id(issued),
                                section_type |-> current_type[1],
                                level |-> current_level,
                                content |-> trimmed,
                                order_idx |-> order_idx,
                                variables |-> variables]),
              order_idx |-> order_idx + 1,
              all_variables |-> all_variables \o variables,
              issued |-> generated(issued),
              lazy |-> force(lazy, "VARIABLE_REGEX")]
        ELSE [sections |-> sections,
              order_idx |-> order_idx,
              all_variables |-> all_variables,
              issued |-> issued,
              lazy |-> lazy]

FlushedKindLeft(type, level) ==
    /\ sections' = flush_section.sections
    /\ order_idx' = flush_section.order_idx
    /\ all_variables' = flush_section.all_variables
    /\ issued' = flush_section.issued
    /\ lazy' = flush_section.lazy
    /\ current_content' = <<>>
    /\ current_type' = IF type # None \/ ShouldEmit(current_type, Trim(current_content))
                       THEN type
                       ELSE current_type
    /\ current_level' = level

FlushedLevelLeft(type, level) ==
    /\ sections' = flush_section.sections
    /\ order_idx' = flush_section.order_idx
    /\ all_variables' = flush_section.all_variables
    /\ issued' = flush_section.issued
    /\ lazy' = flush_section.lazy
    /\ current_content' = <<>>
    /\ current_type' = type
    /\ current_level' = IF level # None \/ ShouldEmit(current_type, Trim(current_content))
                        THEN level
                        ELSE current_level

\* the reducer's variables after flush_section, with the type and level then set
Flushed(type, level) ==
    /\ sections' = flush_section.sections
    /\ order_idx' = flush_section.order_idx
    /\ all_variables' = flush_section.all_variables
    /\ issued' = flush_section.issued
    /\ lazy' = flush_section.lazy
    /\ current_content' = <<>>
    /\ current_type' = type
    /\ current_level' = level

Unflushed ==
    UNCHANGED <<sections, order_idx, all_variables, current_content, current_type,
                current_level, issued, lazy>>

wrapping_sub(a, b) == IF a >= b THEN a - b ELSE 2147483647 - (b - a - 1)

\* u32::saturating_sub
saturating_sub(a, b) == IF a >= b THEN a - b ELSE 0

StartHeadingNoLevel(level) ==
    /\ Taking
    /\ Flushed(Some("Heading"), None)
    /\ UNCHANGED <<title, blockquote_depth, list_depth>>
    /\ SourceStart("Heading", Some(level))

\* Event::Start(Tag::Heading { level, .. })
StartHeading(level) ==
    /\ Taking
    /\ Flushed(Some("Heading"), Some(level))
    /\ UNCHANGED <<title, blockquote_depth, list_depth>>
    /\ SourceStart("Heading", Some(level))

CapturesTitleAlways == current_level = Some(1)

\* the End of a heading sets the title
CapturesTitle == title = None /\ current_level = Some(1)

EndHeadingUntrimmed ==
    /\ Taking
    /\ title' = IF CapturesTitle THEN Some(current_content) ELSE title
    /\ Flushed(None, None)
    /\ UNCHANGED <<blockquote_depth, list_depth>>
    /\ SourceEnd("Heading")

\* Event::End(TagEnd::Heading(_))
EndHeading ==
    /\ Taking
    /\ title' = IF CapturesTitle THEN Some(Trim(current_content)) ELSE title
    /\ Flushed(None, None)
    /\ UNCHANGED <<blockquote_depth, list_depth>>
    /\ SourceEnd("Heading")

StartParagraphAnywhere ==
    /\ Taking
    /\ Flushed(Some("Paragraph"), None)
    /\ UNCHANGED <<title, blockquote_depth, list_depth>>
    /\ SourceStart("Paragraph", None)

\* Event::Start(Tag::Paragraph)
StartParagraph ==
    /\ Taking
    /\ IF blockquote_depth = 0 /\ list_depth = 0
       THEN Flushed(Some("Paragraph"), None)
       ELSE Unflushed
    /\ UNCHANGED <<title, blockquote_depth, list_depth>>
    /\ SourceStart("Paragraph", None)

\* Event::End(TagEnd::Paragraph)
EndParagraph ==
    /\ Taking
    /\ IF blockquote_depth = 0 /\ list_depth = 0
       THEN Flushed(None, None)
       ELSE Unflushed
    /\ UNCHANGED <<title, blockquote_depth, list_depth>>
    /\ SourceEnd("Paragraph")

\* Event::Start(Tag::CodeBlock(_))
StartCodeBlock ==
    /\ Taking
    /\ Flushed(Some("Code"), None)
    /\ UNCHANGED <<title, blockquote_depth, list_depth>>
    /\ SourceStart("CodeBlock", None)

\* Event::End(TagEnd::CodeBlock)
EndCodeBlock ==
    /\ Taking
    /\ Flushed(None, None)
    /\ UNCHANGED <<title, blockquote_depth, list_depth>>
    /\ SourceEnd("CodeBlock")

\* Event::Start(Tag::List(_))
StartList ==
    /\ Taking
    /\ IF list_depth = 0
       THEN Flushed(Some("List"), None)
       ELSE Unflushed
    /\ list_depth' = list_depth + 1
    /\ UNCHANGED <<title, blockquote_depth>>
    /\ SourceStart("List", None)

ListEndFlushesAlways(depth) == TRUE

\* the End of a list flushes: it was the outermost one
ListEndFlushes(depth) == depth = 0

EndListChecked ==
    IF list_depth = 0
    THEN /\ pc = "events"
         /\ n < limit
         /\ pc' = "panic"
         /\ UNCHANGED <<frontmatter_feature, content, frontmatter, edges, result, n,
                        limit>>
         /\ UNCHANGED reducer
         /\ UNCHANGED source
         /\ UNCHANGED outside
    ELSE /\ Taking
         /\ list_depth' = list_depth - 1
         /\ IF ListEndFlushes(list_depth')
            THEN Flushed(None, None)
            ELSE Unflushed
         /\ UNCHANGED <<title, blockquote_depth>>
         /\ SourceEnd("List")

\* Event::End(TagEnd::List(_))
EndList ==
    /\ Taking
    /\ list_depth' = saturating_sub(list_depth, 1)
    /\ IF ListEndFlushes(list_depth')
       THEN Flushed(None, None)
       ELSE Unflushed
    /\ UNCHANGED <<title, blockquote_depth>>
    /\ SourceEnd("List")

\* Event::Start(Tag::BlockQuote(_))
StartBlockQuote ==
    /\ Taking
    /\ IF blockquote_depth = 0
       THEN Flushed(Some("Blockquote"), None)
       ELSE Unflushed
    /\ blockquote_depth' = blockquote_depth + 1
    /\ UNCHANGED <<title, list_depth>>
    /\ SourceStart("BlockQuote", None)

\* Event::End(TagEnd::BlockQuote(_))
EndBlockQuote ==
    /\ Taking
    /\ blockquote_depth' = saturating_sub(blockquote_depth, 1)
    /\ IF blockquote_depth' = 0
       THEN Flushed(None, None)
       ELSE Unflushed
    /\ UNCHANGED <<title, list_depth>>
    /\ SourceEnd("BlockQuote")

\* Event::Start(Tag::Table(_))
StartTable ==
    /\ Taking
    /\ Flushed(Some("Table"), None)
    /\ UNCHANGED <<title, blockquote_depth, list_depth>>
    /\ SourceStart("Table", None)

\* Event::End(TagEnd::Table)
EndTable ==
    /\ Taking
    /\ Flushed(None, None)
    /\ UNCHANGED <<title, blockquote_depth, list_depth>>
    /\ SourceEnd("Table")

rule_section_stale(idx, id) ==
    [id |-> id, section_type |-> "HorizontalRule", level |-> None,
     content |-> <<"-", "-", "-">>,
     order_idx |-> IF idx > 0 THEN idx - 1 ELSE 0, variables |-> <<>>]

\* the section a Rule event pushes
rule_section(idx, id) ==
    [id |-> id, section_type |-> "HorizontalRule", level |-> None,
     content |-> <<"-", "-", "-">>,
     order_idx |-> idx, variables |-> <<>>]

RuleWhenIdle ==
    /\ Taking
    /\ sections' = IF current_type = None
                   THEN Append(flush_section.sections,
                               rule_section(flush_section.order_idx,
                                            generate_id(flush_section.issued)))
                   ELSE flush_section.sections
    /\ order_idx' = Len(sections')
    /\ all_variables' = flush_section.all_variables
    /\ issued' = IF current_type = None
                 THEN generated(flush_section.issued)
                 ELSE flush_section.issued
    /\ lazy' = flush_section.lazy
    /\ current_content' = <<>>
    /\ current_type' = None
    /\ current_level' = None
    /\ UNCHANGED <<title, blockquote_depth, list_depth>>
    /\ SourceRule

\* Event::Rule
Rule ==
    /\ Taking
    /\ sections' = Append(flush_section.sections,
                          rule_section(flush_section.order_idx,
                                       generate_id(flush_section.issued)))
    /\ order_idx' = flush_section.order_idx + 1
    /\ all_variables' = flush_section.all_variables
    /\ issued' = generated(flush_section.issued)
    /\ lazy' = flush_section.lazy
    /\ current_content' = <<>>
    /\ current_type' = None
    /\ current_level' = None
    /\ UNCHANGED <<title, blockquote_depth, list_depth>>
    /\ SourceRule

TextSpaced(text) ==
    /\ Taking
    /\ current_content' = current_content \o <<" ">> \o text
    /\ UNCHANGED <<sections, order_idx, all_variables, current_type, current_level,
                   title, blockquote_depth, list_depth, issued, lazy>>
    /\ SourceText(text)

\* Event::Text(text) | Event::Code(text)
Text(text) ==
    /\ Taking
    /\ current_content' = current_content \o text
    /\ UNCHANGED <<sections, order_idx, all_variables, current_type, current_level,
                   title, blockquote_depth, list_depth, issued, lazy>>
    /\ SourceText(text)

BreakAsSpace ==
    /\ Taking
    /\ current_content' = Append(current_content, " ")
    /\ UNCHANGED <<sections, order_idx, all_variables, current_type, current_level,
                   title, blockquote_depth, list_depth, issued, lazy>>
    /\ SourceText(<<"\n">>)

\* Event::SoftBreak | Event::HardBreak
Break ==
    /\ Taking
    /\ current_content' = Append(current_content, "\n")
    /\ UNCHANGED <<sections, order_idx, all_variables, current_type, current_level,
                   title, blockquote_depth, list_depth, issued, lazy>>
    /\ SourceText(<<"\n">>)

\* any other event: _ => {}
Other ==
    /\ Taking
    /\ UNCHANGED reducer
    /\ SourceOther

generate_edges_all(secs) ==
    [i \in 1..Len(secs) |->
        [source_idx |-> i - 1, target_idx |-> i, edge_type |-> "Follows"]]

\* generate_edges: one Follows edge per pair of neighbours (indices from 0)
generate_edges(secs) ==
    [i \in 1..saturating_sub(Len(secs), 1) |->
        [source_idx |-> i - 1, target_idx |-> i, edge_type |-> "Follows"]]

unique_sorted_nodedup(all) == Sort(all)

\* all_variables.sort(); all_variables.dedup()
unique_sorted(all) == Dedup(Sort(all))

checklist_text_sections(body, secs) == Join([i \in 1..Len(secs) |-> secs[i].content])

\* the text whose checklist items the document gets: &content, the body
checklist_text(body, secs) == TextOf(body)

FinishWithoutFlush ==
    /\ pc = "events"
    /\ pc' = "done"
    /\ all_variables' = unique_sorted(all_variables)
    /\ edges' = generate_edges(sections)
    /\ checklist_items' = extract_checklist_items(checklist_text(content, sections))
    /\ lazy' = checklist_forces(lazy, checklist_text(content, sections))
    /\ result' = Some("Ok")
    /\ UNCHANGED <<sections, order_idx, current_content, current_type, current_level,
                   issued, title, blockquote_depth, list_depth, frontmatter_feature,
                   content, frontmatter, n, limit>>
    /\ UNCHANGED <<generate_ids, first, input, call, running, parked, alone>>
    /\ SourceDone

\* the event stream has ended: final flush, edges, document
Finish ==
    /\ pc = "events"
    /\ pc' = "done"
    /\ \E flushed \in {flush_section} :
          /\ sections' = flushed.sections
          /\ order_idx' = flushed.order_idx
          /\ all_variables' = unique_sorted(flushed.all_variables)
          /\ issued' = flushed.issued
          /\ edges' = generate_edges(flushed.sections)
          /\ checklist_items' =
                 extract_checklist_items(checklist_text(content, flushed.sections))
          /\ lazy' = checklist_forces(flushed.lazy,
                                      checklist_text(content, flushed.sections))
    /\ current_content' = <<>>
    /\ current_type' = None
    /\ current_level' = None
    /\ result' = Some("Ok")
    /\ UNCHANGED <<title, blockquote_depth, list_depth, frontmatter_feature, content,
                   frontmatter, n, limit>>
    /\ UNCHANGED <<generate_ids, first, input, call, running, parked, alone>>
    /\ SourceDone

\* #[cfg(feature = "frontmatter")] strip_frontmatter(content)?
StripFrontmatter ==
    /\ pc = "start"
    /\ LET r == strip_frontmatter(content)
       IN  IF frontmatter_feature /\ ~r.ok
           THEN /\ pc' = "error"
                /\ result' = Some("FrontmatterError")
                /\ UNCHANGED <<content, frontmatter>>
           ELSE /\ pc' = "events"
                /\ content' = IF frontmatter_feature THEN r.content ELSE content
                /\ frontmatter' = IF frontmatter_feature THEN r.frontmatter ELSE None
                /\ UNCHANGED result
    /\ UNCHANGED <<frontmatter_feature, edges, n, limit>>
    /\ UNCHANGED reducer
    /\ UNCHANGED source
    /\ UNCHANGED outside

\* parse is entered: the locals of lines 66-74
Locals ==
    /\ pc = "start"
    /\ frontmatter = None
    /\ sections = <<>>
    /\ current_content = <<>>
    /\ current_type = None
    /\ current_level = None
    /\ order_idx = 0
    /\ all_variables = <<>>
    /\ title = None
    /\ blockquote_depth = 0
    /\ list_depth = 0
    /\ edges = <<>>
    /\ result = None
    /\ n = 0
    /\ open = <<>>
    /\ flat = TRUE
    /\ nested_paras = {}
    /\ rule_events = 0
    /\ tape = <<>>
    /\ issued = 0
    /\ checklist_items = <<>>
    /\ first = None
    /\ call = None
    /\ lazy = [name \in Statics |-> 0]
    /\ running = 1
    /\ parked = None
    /\ alone = <<>>

\* a body text without frontmatter, any event stream of at most MaxEvents events
Init ==
    /\ Locals
    /\ frontmatter_feature = TRUE
    /\ generate_ids = TRUE
    /\ content = <<"text">>
    /\ input = content
    /\ limit = MaxEvents
    /\ source_mode = "free"

\* the same, the stream well nested and of at most MaxNestedEvents events
InitNested ==
    /\ Locals
    /\ frontmatter_feature = TRUE
    /\ generate_ids = TRUE
    /\ content = <<"text">>
    /\ input = content
    /\ limit = MaxNestedEvents
    /\ source_mode = "nested"

\* the same, the stream block-structured and of at most MaxBlockEvents events, the
\* parser made by new() or by without_ids()
InitBlocks ==
    /\ Locals
    /\ frontmatter_feature = TRUE
    /\ generate_ids \in BOOLEAN
    /\ content = <<"text">>
    /\ input = content
    /\ limit = MaxBlockEvents
    /\ source_mode = "blocks"

\* any input text, with and without the feature, short event streams
InitFm ==
    /\ Locals
    /\ frontmatter_feature \in BOOLEAN
    /\ generate_ids = TRUE
    /\ content \in Contents
    /\ input = content
    /\ limit = MaxFmEvents
    /\ source_mode = "free"

\* what parse returns with Ok
Document ==
    [title |-> title, sections |-> sections, variables |-> all_variables,
     edges |-> edges, checklist_items |-> checklist_items, frontmatter |-> frontmatter]

first_order_idx_kept(old) == old

\* let mut order_idx = 0u32
first_order_idx(old) == 0

\* parse is called again on the same text, by the same parser; the tokenizer
\* delivers the same events again
ParseAgain ==
    /\ pc = "done"
    /\ source_mode = "record"
    /\ first' = Some(Document)
    /\ source_mode' = "replay"
    /\ pc' = "start"
    /\ content' = input
    /\ frontmatter' = None
    /\ sections' = <<>>
    /\ current_content' = <<>>
    /\ current_type' = None
    /\ current_level' = None
    /\ order_idx' = first_order_idx(order_idx)
    /\ all_variables' = <<>>
    /\ title' = None
    /\ blockquote_depth' = 0
    /\ list_depth' = 0
    /\ edges' = <<>>
    /\ result' = None
    /\ n' = 0
    /\ open' = <<>>
    /\ flat' = TRUE
    /\ nested_paras' = {}
    /\ rule_events' = 0
    /\ checklist_items' = <<>>
    /\ UNCHANGED <<frontmatter_feature, limit, tape, generate_ids, issued, input, call,
                   lazy, running, parked, alone>>

\* a text with frontmatter and a checklist line, parsed twice by a parser of
\* either mode
InitTwice ==
    /\ Locals
    /\ frontmatter_feature = TRUE
    /\ generate_ids \in BOOLEAN
    /\ content = <<"---", "k: v", "---", "- [x] a">>
    /\ input = content
    /\ limit = MaxTwiceEvents
    /\ source_mode = "record"

Next ==
    \/ StripFrontmatter
    \/ \E level \in HeadingLevels : StartHeading(level)
    \/ EndHeading
    \/ StartParagraph
    \/ EndParagraph
    \/ StartCodeBlock
    \/ EndCodeBlock
    \/ StartList
    \/ EndList
    \/ StartBlockQuote
    \/ EndBlockQuote
    \/ StartTable
    \/ EndTable
    \/ Rule
    \/ \E text \in Payloads : Text(text)
    \/ Break
    \/ Other
    \/ Finish

Spec == Init /\ [][Next]_vars

SpecNested == InitNested /\ [][Next]_vars

SpecBlocks == InitBlocks /\ [][Next]_vars

SpecFm == InitFm /\ [][Next]_vars

\* a body text without frontmatter, any event stream of at most MaxRecordEvents
\* events, the events kept as they are delivered
InitRecord ==
    /\ Locals
    /\ frontmatter_feature = TRUE
    /\ generate_ids = TRUE
    /\ content = <<"text">>
    /\ input = content
    /\ limit = MaxRecordEvents
    /\ source_mode = "record"

SpecRecord == InitRecord /\ [][Next]_vars

\* the same, any event stream of at most MaxFairEvents events
InitFair ==
    /\ Locals
    /\ frontmatter_feature = TRUE
    /\ generate_ids = TRUE
    /\ content = <<"text">>
    /\ input = content
    /\ limit = MaxFairEvents
    /\ source_mode = "record"

\* parse is straight-line code around a loop over a finite stream: the frontmatter
\* is stripped, the stream comes to its end, and the statements after the loop
\* are then executed
SpecFair == InitFair /\ [][Next]_vars /\ WF_vars(StripFrontmatter) /\ WF_vars(Finish)

NextTwice == Next \/ ParseAgain

SpecTwice == InitTwice /\ [][NextTwice]_vars

\* ------------------------------------------------------------- concurrent calls
RECURSIVE Reverse(_)
Reverse(q) == IF q = <<>> THEN <<>> ELSE Append(Reverse(Tail(q)), Head(q))

\* what belongs to one parse call: its argument, the flag of its parser, its
\* position, its tokenizer and the locals of parse
CallState ==
    [input |-> input, generate_ids |-> generate_ids, pc |-> pc, content |-> content,
     frontmatter |-> frontmatter, sections |-> sections,
     current_content |-> current_content, current_type |-> current_type,
     current_level |-> current_level, order_idx |-> order_idx,
     all_variables |-> all_variables, title |-> title,
     blockquote_depth |-> blockquote_depth, list_depth |-> list_depth,
     edges |-> edges, result |-> result, n |-> n, tape |-> tape,
     flat |-> flat, rule_events |-> rule_events,
     checklist_items |-> checklist_items]

\* a call at the entry of parse(text), its tokenizer about to deliver the events tp
Entered(text, ids, tp) ==
    [input |-> text, generate_ids |-> ids, pc |-> "start", content |-> text,
     frontmatter |-> None, sections |-> <<>>,
     current_content |-> <<>>, current_type |-> None,
     current_level |-> None, order_idx |-> 0,
     all_variables |-> <<>>, title |-> None,
     blockquote_depth |-> 0, list_depth |-> 0,
     edges |-> <<>>, result |-> None, n |-> 0, tape |-> tp,
     flat |-> TRUE, rule_events |-> 0,
     checklist_items |-> <<>>]

order_idx_of_parser(own, last) == last

\* let mut order_idx: a local of the call, whatever another call left
order_idx_of_call(own, last) == own

\* the call c is the one whose steps come next
Resumes(c) ==
    /\ input' = c.input
    /\ generate_ids' = c.generate_ids
    /\ pc' = c.pc
    /\ content' = c.content
    /\ frontmatter' = c.frontmatter
    /\ sections' = c.sections
    /\ current_content' = c.current_content
    /\ current_type' = c.current_type
    /\ current_level' = c.current_level
    /\ order_idx' = order_idx_of_call(c.order_idx, order_idx)
    /\ all_variables' = c.all_variables
    /\ title' = c.title
    /\ blockquote_depth' = c.blockquote_depth
    /\ list_depth' = c.list_depth
    /\ edges' = c.edges
    /\ result' = c.result
    /\ n' = c.n
    /\ tape' = c.tape
    /\ flat' = c.flat
    /\ rule_events' = c.rule_events
    /\ checklist_items' = c.checklist_items
    /\ UNCHANGED <<frontmatter_feature, limit, open, nested_paras, issued, first, call,
                   lazy>>

\* the second text
OtherText == <<"  - [ ] b">>

\* what a call that ran alone leaves: its text, its flag, its events, its document
Alone == [input |-> input, generate_ids |-> generate_ids, tape |-> tape,
          document |-> Document]

\* the first call has returned; a second call, of a parser made by without_ids(),
\* parses another text, whose events are those of the first in reverse
SecondAlone ==
    /\ pc = "done"
    /\ source_mode = "record"
    /\ alone' = <<Alone>>
    /\ source_mode' = "replay"
    /\ Resumes(Entered(OtherText, FALSE, Reverse(tape)))
    /\ UNCHANGED <<running, parked>>

\* the second call has returned; the two calls are made again, at the same time
Both ==
    /\ pc = "done"
    /\ source_mode = "replay"
    /\ Len(alone) = 1
    /\ alone' = Append(alone, Alone)
    /\ Resumes(Entered(alone[1].input, alone[1].generate_ids, alone[1].tape))
    /\ parked' = Some(Entered(input, generate_ids, tape))
    /\ running' = 1
    /\ UNCHANGED source_mode

\* the scheduler runs the other call, which has steps left
Switch ==
    /\ parked # None
    /\ parked[1].pc # "done"
    /\ parked' = Some(CallState)
    /\ running' = 3 - running
    /\ Resumes(parked[1])
    /\ UNCHANGED <<source_mode, alone>>

\* a text with frontmatter and a checklist line, parsed by a parser made by new()
InitBoth ==
    /\ Locals
    /\ frontmatter_feature = TRUE
    /\ generate_ids = TRUE
    /\ content = <<"---", "k: v", "---", "- [x] a">>
    /\ input = content
    /\ limit = MaxBothEvents
    /\ source_mode = "record"

NextBoth == Next \/ SecondAlone \/ Both \/ Switch

SpecBoth == InitBoth /\ [][NextBoth]_vars

\* ------------------------------------------------------------- library calls
\* all sequences of at most k elements of S
SeqsUpTo(S, k) == UNION {[1..m -> S] : m \in 0..k}

RECURSIVE Flatten(_)
Flatten(pieces) == IF pieces = <<>> THEN <<>> ELSE Head(pieces) \o Flatten(Tail(pieces))

Spaces(k) == [i \in 1..k |-> " "]

\* indentations: runs of spaces, a tab, a no-break space
Indents == {Spaces(k) : k \in 0..MaxIndent} \cup {<<"\t">>, <<NBSP>>}

\* what may follow the indentation: checkbox openings, right and wrong
Heads ==
    { <<"-", " ", "[", " ", "]", " ">>,
      <<"-", " ", "[", "x", "]", " ">>,
      <<"-", " ", "[", "X", "]", " ">>,
      <<"-", " ", "[", "y", "]", " ">>,
      <<"-", " ", "[", "x", "]">>,
      <<"-", "[", "x", "]", " ">>,
      <<"*", " ", "[", "x", "]", " ">>,
      <<>> }

\* what may follow the opening
Tails == {<<>>, <<"a">>}

\* pieces of an item text
AcPieces ==
    { <<"a", " ">>,
      <<"(", "A", "C", ":", " ", "1", ",", " ", "2", ")">>,
      <<"(", "A", "C", ":", " ", " ", "2", " ", ",", ",", " ", "1", " ", ")">>,
      <<"(", "A", "C", ":", "3", ")">>,
      <<"(", "A", "C", ":", " ", ")">>,
      <<"(", "A", "C", ":", ")">>,
      <<"(", "A", "C", " ", "1", ")">>,
      <<"(", "A", "C", ":", " ", "1">> }

AcTexts == {Flatten(ps) : ps \in SeqsUpTo(AcPieces, MaxPieces)}

\* the first line of an input text
FirstLines ==
    {i \o h \o t : <<i, h, t>> \in Indents \X Heads \X Tails}
    \cup {<<"-", " ", "[", " ", "]", " ">> \o t : t \in AcTexts}

\* the lines after the first
MoreLines ==
    { <<" ", " ", "-", " ", "[", "x", "]", " ", "b">>,
      <<"t", "e", "x", "t">>,
      <<"-", " ", "[", " ", "]", " ", "a">>,
      <<>> }

ChecklistTexts ==
    {Join(<<l>> \o rest) :
        <<l, rest>> \in FirstLines \X SeqsUpTo(MoreLines, MaxTextLines - 1)}

\* pieces of a text with placeholders
VarPieces ==
    { <<"{", "{", "a", "}", "}">>,
      <<"{", "{", "b", "}", "}">>,
      <<"{", "{", "a", "_", "1", "}", "}">>,
      <<"{", "{", "}", "}">>,
      <<"{", "{", " ", "a", " ", "}", "}">>,
      <<"{", "a", "}">>,
      <<"{", " ", "{", "a", "}", " ", "}">>,
      <<"t", " ">>,
      <<"{", "{", "a">>,
      <<"}", "}">>,
      <<"{">> }

VariableTexts == {Flatten(ps) : ps \in SeqsUpTo(VarPieces, MaxPieces)}

\* everything but call and the statics
called_from == <<pc, frontmatter_feature, content, frontmatter, sections, current_content,
                 current_type, current_level, order_idx, all_variables, title,
                 blockquote_depth, list_depth, edges, result, n, limit,
                 source_mode, open, flat, nested_paras, rule_events, tape,
                 generate_ids, issued, checklist_items, first, input,
                 running, parked, alone>>

\* the statics after a call of fn
forces(fn, arg) ==
    CASE fn = "extract_checklist_items" -> checklist_forces(lazy, arg)
      [] fn \in {"extract_variables", "extract_unique_variables", "has_variables",
                 "count_variables"} -> force(lazy, "VARIABLE_REGEX")
      [] OTHER -> lazy

Returns(fn, arg, ret) ==
    /\ call' = Some([fn |-> fn, arg |-> arg, ret |-> ret])
    /\ lazy' = forces(fn, arg)
    /\ UNCHANGED called_from

LastCallWas(fn) == call # None /\ call[1].fn = fn

CallExtractChecklistItems ==
    /\ input.of = "checklist"
    /\ Returns("extract_checklist_items", input.text, extract_checklist_items(input.text))

\* the summary of the items just extracted
CallFromItems ==
    /\ LastCallWas("extract_checklist_items")
    /\ Returns("from_items", call[1].ret, from_items(call[1].ret))

CallIsComplete ==
    /\ LastCallWas("from_items")
    /\ Returns("is_complete", call[1].ret, is_complete(call[1].ret))

CallIsEmpty ==
    /\ LastCallWas("from_items")
    /\ Returns("is_empty", call[1].ret, is_empty(call[1].ret))

CallExtractVariables ==
    /\ input.of = "variables"
    /\ Returns("extract_variables", input.text, extract_variables(input.text))

CallExtractUniqueVariables ==
    /\ input.of = "variables"
    /\ \E order \in Enumerations(collected(input.text)) :
          Returns("extract_unique_variables", input.text,
                  extract_unique_variables(input.text, order))

CallHasVariables ==
    /\ input.of = "variables"
    /\ Returns("has_variables", input.text, has_variables(input.text))

CallCountVariables ==
    /\ input.of = "variables"
    /\ Returns("count_variables", input.text, count_variables(input.text))

\* no parse call; a text handed to the functions of the library
InitCalls ==
    /\ Locals
    /\ frontmatter_feature = TRUE
    /\ generate_ids = TRUE
    /\ content = <<>>
    /\ limit = 0
    /\ source_mode = "free"
    /\ input \in [of : {"checklist"}, text : ChecklistTexts]
                 \cup [of : {"variables"}, text : VariableTexts]

NextCalls ==
    \/ CallExtractChecklistItems
    \/ CallFromItems
    \/ CallIsComplete
    \/ CallIsEmpty
    \/ CallExtractVariables
    \/ CallExtractUniqueVariables
    \/ CallHasVariables
    \/ CallCountVariables

SpecCalls == InitCalls /\ [][NextCalls]_vars

\* ------------------------------------------------------------- properties
\* t occurs in s as a contiguous run
Contains(s, t) ==
    \E i \in 0..(Len(s) - Len(t)) : SubSeq(s, i + 1, i + Len(t)) = t

\* the section type a flushed element of this tag gets
KindOf(tag) ==
    CASE tag = "Heading" -> "Heading"
      [] tag = "Paragraph" -> "Paragraph"
      [] tag = "CodeBlock" -> "Code"
      [] tag = "Table" -> "Table"
      [] tag = "List" -> "List"
      [] tag = "BlockQuote" -> "Blockquote"

\* sections' is sections with exactly one more section at its end
OneMore == Len(sections') = Len(sections) + 1 /\ Front(sections') = sections

Outermost(stack, tag) ==
    IF \E i \in 1..Len(stack) : stack[i].tag = tag
    THEN CHOOSE i \in 1..Len(stack) :
             /\ stack[i].tag = tag
             /\ \A j \in 1..(i - 1) : stack[j].tag # tag
    ELSE 0

DepthOf(tag) == IF tag = "List" THEN list_depth ELSE blockquote_depth

\* C2: in a well-nested stream, while an outermost List (BlockQuote) has received
\* only nested Lists (BlockQuotes), Paragraphs, text and breaks, no event inside it
\* changes the sections; the End that closes it, its text not being blank, appends
\* exactly one section, of kind List (Blockquote), and brings the depth to 0.
C2_NestedContainersDoNotSplit ==
    [][\A tag \in Containers :
          LET i == Outermost(open, tag)
          IN  i > 0 =>
                 IF Len(open') >= i
                 THEN open'[i].pure => (sections' = sections /\ DepthOf(tag)' > 0)
                 ELSE (open[i].pure /\ Trim(open[i].text) # <<>>) =>
                          /\ OneMore
                          /\ Last(sections').section_type = KindOf(tag)
                          /\ DepthOf(tag)' = 0]_vars

\* C2 witness: inside a List nested in a List, text pending, nothing emitted
C2_Witness ==
    /\ Len(open) = 2
    /\ open[1].tag = "List"
    /\ open[2].tag = "List"
    /\ open[1].pure
    /\ Trim(open[1].text) # <<>>
    /\ list_depth = 2
    /\ current_type = Some("List")
    /\ sections = <<>>

\* C3: when a well-nested stream has ended, the text of every Paragraph that sat
\* inside a List or BlockQuote is part of the content of a List or Blockquote section.
C3_NestedParagraphsMerge ==
    (pc = "done" /\ open = <<>>) =>
        \A t \in nested_paras :
            \E i \in 1..Len(sections) :
                /\ sections[i].section_type \in {"List", "Blockquote"}
                /\ Contains(sections[i].content, t)

\* C4: the running order index is the number of sections, and section i (from 0)
\* carries order index i.
C4_OrderIdx ==
    /\ order_idx = Len(sections)
    /\ \A i \in 1..Len(sections) : sections[i].order_idx = i - 1

\* C4 witness: three sections, a rule not the first of them
C4_Witness ==
    /\ Len(sections) = 3
    /\ sections[1].section_type # "HorizontalRule"
    /\ \E i \in 2..3 : sections[i].section_type = "HorizontalRule"

\* C5: the document has max(N-1, 0) edges for N sections, edge i (from 0) being
\* (i, i+1, Follows); no other edge exists.
C5_Edges ==
    /\ pc # "done" => edges = <<>>
    /\ pc = "done" =>
          /\ Len(edges) = IF Len(sections) >= 1 THEN Len(sections) - 1 ELSE 0
          /\ \A i \in 1..Len(edges) :
                edges[i] = [source_idx |-> i - 1, target_idx |-> i,
                            edge_type |-> "Follows"]

\* C5 witness: a document of three sections
C5_Witness == pc = "done" /\ Len(sections) = 3 /\ Len(edges) = 2

\* a flush would push a section now
Pending == current_type # None /\ Trim(current_content) # <<>>

Range(f) == {f[i] : i \in 1..Len(f)}

\* C6: a Rule event, whatever the state, first flushes (the pending buffer becomes
\* a section, the buffer and the type are cleared) and then appends exactly one
\* section of type HorizontalRule with content "---", no level, no variables and
\* the next order index; the HorizontalRule sections are as many as the Rule events.
C6_RuleEvents ==
    /\ [](Cardinality({i \in 1..Len(sections) :
                          sections[i].section_type = "HorizontalRule"}) = rule_events)
    /\ [][rule_events' # rule_events =>
             /\ Len(sections') = Len(sections) + (IF Pending THEN 2 ELSE 1)
             /\ SubSeq(sections', 1, Len(sections)) = sections
             /\ Pending =>
                   /\ sections'[Len(sections) + 1].section_type = current_type[1]
                   /\ sections'[Len(sections) + 1].content = Trim(current_content)
             /\ Last(sections').section_type = "HorizontalRule"
             /\ Last(sections').level = None
             /\ Last(sections').content = <<"-", "-", "-">>
             /\ Last(sections').order_idx = Len(sections') - 1
             /\ Last(sections').variables = <<>>
             /\ current_content' = <<>>
             /\ current_type' = None]_vars

\* C6 witness: a Rule inside a List whose text was pending
C6_Witness ==
    /\ list_depth = 1
    /\ Len(sections) = 2
    /\ sections[1].section_type = "List"
    /\ sections[2].section_type = "HorizontalRule"
    /\ rule_events = 1

\* C7: the title changes only at a Heading End that finds no title and level 1, to
\* the trimmed buffer; such a Heading End always sets it; once set it stays.
C7_TitleOnce ==
    [][/\ title' # title =>
             /\ EndHeading
             /\ title = None
             /\ current_level = Some(1)
             /\ title' = Some(Trim(current_content))
       /\ (EndHeading /\ title = None /\ current_level = Some(1)) =>
             title' = Some(Trim(current_content))
       /\ title # None => title' = title]_vars

\* C7 witness: a title is set and a level-1 heading with another content was
\* flushed after it
C7_Witness ==
    /\ title # None
    /\ current_type = None
    /\ n = 5
    /\ Len(sections) = 1
    /\ sections[1].section_type = "Heading"
    /\ sections[1].level = Some(1)
    /\ Some(sections[1].content) # title

StrictlyAscending(v) == \A i \in 1..(Len(v) - 1) : StrLess(v[i], v[i + 1])

\* the names w for which {{w}} occurs in text, w one or more word characters
NamesIn(text) ==
    {SubSeq(text, i, j) : <<i, j>> \in
        {p \in (1..Len(text)) \X (1..Len(text)) :
            /\ p[1] <= p[2]
            /\ \A k \in p[1]..p[2] : text[k] \in WordChars
            /\ p[1] >= 3
            /\ text[p[1] - 2] = "{"
            /\ text[p[1] - 1] = "{"
            /\ p[2] + 2 <= Len(text)
            /\ text[p[2] + 1] = "}"
            /\ text[p[2] + 2] = "}"}}

\* C8: the document's variables are strictly ascending, they are the union of the
\* sections' variables, and a name is among them iff it occurs as {{name}} in the
\* content of a section.
C8_DocumentVariables ==
    pc = "done" =>
        /\ StrictlyAscending(all_variables)
        /\ Range(all_variables) =
               UNION {Range(sections[i].variables) : i \in 1..Len(sections)}
        /\ Range(all_variables) =
               UNION {NamesIn(sections[i].content) : i \in 1..Len(sections)}

\* C8 witness: b twice in one section, a in a later one
C8_Witness ==
    /\ pc = "done"
    /\ all_variables = << <<"a">>, <<"b">> >>
    /\ Len(sections) = 2
    /\ sections[1].variables = << <<"b">>, <<"b">> >>
    /\ sections[2].variables = << <<"a">> >>

MetadataMalformed(text) ==
    LET body == DropLeadingEmpty(text)
    IN  /\ body # <<>>
        /\ StartsWithDashes(body[1])
        /\ \E j \in 2..Len(body) :
              /\ StartsWithDashes(body[j])
              /\ \A k \in 2..(j - 1) : ~StartsWithDashes(body[k])
              /\ \/ DashRest(body[1]) # ""
                 \/ \E k \in 2..(j - 1) : body[k] \notin {"", "k: v"}

Ascending(S) ==
    CHOOSE f \in [1..Cardinality(S) -> S] :
        \A i \in 1..(Cardinality(S) - 1) : f[i] < f[i + 1]

\* where the lines of a text start
LineStarts(text) == {i \in 1..Len(text) : i = 1 \/ text[i - 1] = "\n"}

\* the line of text that starts at position i
LineFrom(text, i) ==
    LET ends == {j \in i..Len(text) : text[j] = "\n"}
    IN  SubSeq(text, i, IF ends = {} THEN Len(text) ELSE Min(ends) - 1)

\* the line reads: k characters of Lead, a dash, a space, an open bracket, a space
\* or x or X, a close bracket, a space, a non-empty remainder
Reads(line, k, Lead) ==
    /\ k + 7 <= Len(line)
    /\ \A j \in 1..k : line[j] \in Lead
    /\ line[k + 1] = "-"
    /\ line[k + 2] = " "
    /\ line[k + 3] = "["
    /\ line[k + 4] \in {" ", "x", "X"}
    /\ line[k + 5] = "]"
    /\ line[k + 6] = " "

IsChecklistLine(line, Lead) == \E k \in 0..Len(line) : Reads(line, k, Lead)

LeadOf(line, Lead) == CHOOSE k \in 0..Len(line) : Reads(line, k, Lead)

\* the starts, in order, of the checklist lines of text
ChecklistLineStarts(text, Lead) ==
    Ascending({i \in LineStarts(text) : IsChecklistLine(LineFrom(text, i), Lead)})

\* items are the items of the checklist lines of text, one per line, in line
\* order, each with the remainder of its line and the flag of its marker
ItemsOfChecklistLines(text, items, Lead) ==
    LET starts == ChecklistLineStarts(text, Lead)
    IN  /\ Len(items) = Len(starts)
        /\ \A m \in 1..Len(items) :
              LET line == LineFrom(text, starts[m])
                  k == LeadOf(line, Lead)
              IN  /\ items[m].text = SubSeq(line, k + 7, Len(line))
                  /\ items[m].checked = (line[k + 4] \in {"x", "X"})

\* C11 (as stated): extract_checklist_items returns one item per line that reads
\* leading spaces (U+0020), "- [", a space or x or X, "] " and a non-empty
\* remainder, and none for any other line; in line order, with the remainder as
\* text and checked iff the marker is x or X.
C11_SpaceLedLines ==
    LastCallWas("extract_checklist_items") =>
        ItemsOfChecklistLines(call[1].arg, call[1].ret, {" "})

\* C11 (amended): the same, the leading run being of whitespace characters of any
\* kind (a tab, a no-break space), not of spaces only.
C11_ChecklistLines ==
    LastCallWas("extract_checklist_items") =>
        ItemsOfChecklistLines(call[1].arg, call[1].ret, Whitespace)

\* C11 witness: three lines, the first led by a tab; it and one more gave an item
C11_Witness ==
    /\ LastCallWas("extract_checklist_items")
    /\ call[1].arg # <<>>
    /\ Head(call[1].arg) = "\t"
    /\ Cardinality(LineStarts(call[1].arg)) = 3
    /\ Len(call[1].ret) = 2
    /\ call[1].ret[1].checked
    /\ ~call[1].ret[2].checked

\* the number of leading spaces (U+0020) of a line
RECURSIVE LeadingSpaces(_)
LeadingSpaces(line) ==
    IF line # <<>> /\ Head(line) = " " THEN 1 + LeadingSpaces(Tail(line)) ELSE 0

\* C12: the indent of every extracted item is floor(n / 2), n the number of leading
\* space characters of its line.
C12_IndentHalfSpaces ==
    LastCallWas("extract_checklist_items") =>
        LET starts == ChecklistLineStarts(call[1].arg, Whitespace)
        IN  \A m \in 1..Len(call[1].ret) :
                m <= Len(starts) =>
                    call[1].ret[m].indent =
                        LeadingSpaces(LineFrom(call[1].arg, starts[m])) \div 2

\* the first "(AC: ... )" of text: "(AC:" at p, the next ")" at q, something between
IsParenthetical(text, p, q) ==
    /\ p + 4 < q
    /\ q <= Len(text)
    /\ text[p] = "("
    /\ text[p + 1] = "A"
    /\ text[p + 2] = "C"
    /\ text[p + 3] = ":"
    /\ text[q] = ")"
    /\ \A j \in (p + 4)..(q - 1) : text[j] # ")"

\* the piece of inner that starts at position i and ends before the next comma
PieceFrom(inner, i) ==
    LET commas == {j \in i..Len(inner) : inner[j] = ","}
    IN  SubSeq(inner, i, IF commas = {} THEN Len(inner) ELSE Min(commas) - 1)

\* the references the claim gives a text: the non-blank comma-separated pieces,
\* trimmed and in order, of the inside of its first parenthetical
ReferencesOf(text) ==
    LET found == {pq \in (1..Len(text)) \X (1..Len(text)) :
                     IsParenthetical(text, pq[1], pq[2])}
    IN  IF found = {} THEN <<>>
        ELSE LET pq == CHOOSE x \in found : \A y \in found : x[1] <= y[1]
                 inner == SubSeq(text, pq[1] + 4, pq[2] - 1)
                 kept == {i \in 1..Len(inner) :
                             /\ i = 1 \/ inner[i - 1] = ","
                             /\ Trim(PieceFrom(inner, i)) # <<>>}
             IN  [m \in 1..Cardinality(kept) |->
                     Trim(PieceFrom(inner, Ascending(kept)[m]))]

\* C13: the references of every item are those of the first "(AC: ... )" of its
\* text: its inside split at the commas, the pieces trimmed, the empty ones
\* dropped, the order kept; a later parenthetical adds nothing, and a text without
\* one has no references.
C13_AcRefs ==
    LastCallWas("extract_checklist_items") =>
        \A m \in 1..Len(call[1].ret) :
            call[1].ret[m].ac_refs = ReferencesOf(call[1].ret[m].text)

\* C13 witness: "(AC:  2 ,, 1 )(AC:3)" gave the references 2 and 1
C13_Witness ==
    /\ LastCallWas("extract_checklist_items")
    /\ Len(call[1].ret) = 1
    /\ call[1].ret[1].ac_refs = << <<"2">>, <<"1">> >>
    /\ Contains(call[1].ret[1].text, <<"(", "A", "C", ":", "3", ")">>)

\* C14: the summary of a list of items has total = the number of items, completed
\* = the number of checked ones, pending = total - completed (so completed +
\* pending = total and 0 <= completed <= total) and percentage = completed / total
\* * 100, which is 0 for no items and else lies between 0 and 100.
C14_Summary ==
    LastCallWas("from_items") =>
        LET items == call[1].arg
            summary == call[1].ret
            done == {i \in 1..Len(items) : items[i].checked}
        IN  /\ summary.total = Len(items)
            /\ summary.completed = Cardinality(done)
            /\ summary.pending = summary.total - summary.completed
            /\ summary.completed + summary.pending = summary.total
            /\ 0 <= summary.completed
            /\ summary.completed <= summary.total
            /\ summary.percentage.den > 0
            /\ IF summary.total = 0
               THEN summary.percentage.num = 0
               ELSE /\ summary.percentage.num * summary.total =
                           summary.completed * 100 * summary.percentage.den
                    /\ 0 <= summary.percentage.num
                    /\ summary.percentage.num <= 100 * summary.percentage.den

\* C14 witness: three items, one of them checked
C14_Witness ==
    /\ LastCallWas("from_items")
    /\ call[1].ret.total = 3
    /\ call[1].ret.completed = 1
    /\ call[1].ret.pending = 2

\* C15: is_complete holds iff total > 0 and completed = total, is_empty iff total
\* = 0 or completed = 0; the summary of no items is empty and not complete, and no
\* summary is both.
C15_CompleteAndEmpty ==
    /\ LastCallWas("is_complete") =>
          LET summary == call[1].arg
          IN  /\ call[1].ret <=> (summary.total > 0 /\ summary.completed = summary.total)
              /\ summary.total = 0 => ~call[1].ret
              /\ call[1].ret => ~(summary.total = 0 \/ summary.completed = 0)
    /\ LastCallWas("is_empty") =>
          LET summary == call[1].arg
          IN  /\ call[1].ret <=> (summary.total = 0 \/ summary.completed = 0)
              /\ summary.total = 0 => call[1].ret
              /\ call[1].ret => ~(summary.total > 0 /\ summary.completed = summary.total)

\* C15 witness: the summary of no items was found not complete
C15_Witness ==
    /\ LastCallWas("is_complete")
    /\ call[1].arg.total = 0
    /\ ~call[1].ret

\* the item of a line of the body, if it is a checklist line
ItemOfLine(line) ==
    CASE line = "- [x] a" ->
             <<[text |-> <<"a">>, checked |-> TRUE, indent |-> 0, ac_refs |-> <<>>]>>
      [] line = "  - [ ] b" ->
             <<[text |-> <<"b">>, checked |-> FALSE, indent |-> 1, ac_refs |-> <<>>]>>
      [] OTHER -> <<>>

RECURSIVE ItemsOfBody(_)
ItemsOfBody(ls) ==
    IF ls = <<>> THEN <<>> ELSE ItemOfLine(Head(ls)) \o ItemsOfBody(Tail(ls))

IsPlaceholder(text, p, q) ==
    /\ p + 2 <= q
    /\ q + 2 <= Len(text)
    /\ text[p] = "{"
    /\ text[p + 1] = "{"
    /\ \A k \in (p + 2)..q : text[k] \in WordChars
    /\ text[q + 1] = "}"
    /\ text[q + 2] = "}"

Placeholders(text) ==
    {pq \in (1..Len(text)) \X (1..Len(text)) : IsPlaceholder(text, pq[1], pq[2])}

\* no two occurrences share a character
Disjoint(text) ==
    \A x, y \in Placeholders(text) : x # y => (x[2] + 2 < y[1] \/ y[2] + 2 < x[1])

\* the names of the occurrences, from left to right
NamesInOrder(text) ==
    LET at == Ascending({pq[1] : pq \in Placeholders(text)})
    IN  [m \in 1..Len(at) |->
            LET pq == CHOOSE x \in Placeholders(text) : x[1] = at[m]
            IN  SubSeq(text, pq[1] + 2, pq[2])]

\* C17: extract_variables returns the names of the occurrences of "{{", one or
\* more word characters, "}}" (which never overlap), from left to right, with the
\* duplicates; has_variables is true iff there is one and count_variables is
\* their number.
C17_ExtractVariables ==
    /\ LastCallWas("extract_variables") =>
          /\ Disjoint(call[1].arg)
          /\ call[1].ret = NamesInOrder(call[1].arg)
    /\ LastCallWas("has_variables") =>
          (call[1].ret <=> NamesInOrder(call[1].arg) # <<>>)
    /\ LastCallWas("count_variables") =>
          call[1].ret = Len(NamesInOrder(call[1].arg))

\* C17 witness: "{{a}}{{a}}" gave a twice
C17_Witness ==
    /\ LastCallWas("extract_variables")
    /\ call[1].ret = << <<"a">>, <<"a">> >>

\* C18: extract_unique_variables returns the names of extract_variables in
\* ascending order without duplicates, and a second scan of the same text returns
\* what the first returned (for extract_variables as well).
C18_UniqueVariables ==
    /\ [](LastCallWas("extract_unique_variables") =>
             /\ StrictlyAscending(call[1].ret)
             /\ Range(call[1].ret) = Range(extract_variables(call[1].arg)))
    /\ [][(/\ call # None
           /\ call' # None
           /\ call'[1].fn = call[1].fn
           /\ call'[1].arg = call[1].arg) => call'[1].ret = call[1].ret]_vars

\* C18 witness: "{{b}}{{a}}" gave a, b
C18_Witness ==
    /\ LastCallWas("extract_unique_variables")
    /\ call[1].ret = << <<"a">>, <<"b">> >>
    /\ extract_variables(call[1].arg) = << <<"b">>, <<"a">> >>

\* C19: the parser's mode never changes; with generate_ids every section, those
\* of Rule events included, has a non-empty id and no two sections share one;
\* without it every id is the empty string.
C19_SectionIds ==
    /\ [](\A i \in 1..Len(sections) :
             IF generate_ids
             THEN /\ sections[i].id # <<>>
                  /\ \A j \in 1..Len(sections) : sections[j].id = sections[i].id => j = i
             ELSE sections[i].id = <<>>)
    /\ [][generate_ids' = generate_ids]_vars

\* C19 witness: a document of a List section, a rule and a Paragraph section, all
\* with ids
C19_Witness ==
    /\ pc = "done"
    /\ generate_ids
    /\ Len(sections) = 3
    /\ sections[1].section_type = "List"
    /\ sections[2].section_type = "HorizontalRule"
    /\ sections[1].id # <<>>

\* the section without its id
WithoutId(sec) ==
    [section_type |-> sec.section_type, level |-> sec.level, content |-> sec.content,
     order_idx |-> sec.order_idx, variables |-> sec.variables]

\* C20: a second parse call on the same text returns a document equal to the
\* first in title, in the kind, level, content, order index and placeholders of
\* every section, in the placeholders, edges, checklist items and frontmatter;
\* without ids the two documents are equal.
C20_Deterministic ==
    (pc = "done" /\ first # None) =>
        /\ title = first[1].title
        /\ Len(sections) = Len(first[1].sections)
        /\ \A i \in 1..Len(sections) :
              WithoutId(sections[i]) = WithoutId(first[1].sections[i])
        /\ all_variables = first[1].variables
        /\ edges = first[1].edges
        /\ checklist_items = first[1].checklist_items
        /\ frontmatter = first[1].frontmatter
        /\ ~generate_ids => Document = first[1]

\* C20 witness: two documents of two sections that differ in their ids only
C20_Witness ==
    /\ pc = "done"
    /\ first # None
    /\ generate_ids
    /\ Len(sections) = 2
    /\ sections[1].id # first[1].sections[1].id
    /\ checklist_items # <<>>

\* the documents are equal but for the ids of their sections
SameButIds(d, e) ==
    /\ Len(d.sections) = Len(e.sections)
    /\ [d EXCEPT !.sections = [i \in 1..Len(d.sections) |-> WithoutId(d.sections[i])]]
       = [e EXCEPT !.sections = [i \in 1..Len(e.sections) |-> WithoutId(e.sections[i])]]

\* the two calls are running at the same time
Concurrent == Len(alone) = 2

\* C21: of two parse calls whose steps interleave in any way, each returns the
\* document it returned when it ran alone (the ids apart, and the same document
\* without ids); a step of one call leaves the state of the other call as it
\* was; the flag of a call's parser never changes; the initialiser of a static
\* pattern runs at most once, and a pattern once initialised stays so.
C21_ConcurrentCalls ==
    /\ []((Concurrent /\ pc = "done") =>
             /\ SameButIds(Document, alone[running].document)
             /\ ~generate_ids => Document = alone[running].document)
    /\ []((Concurrent /\ parked[1].pc = "done") =>
             SameButIds([title |-> parked[1].title, sections |-> parked[1].sections,
                         variables |-> parked[1].all_variables,
                         edges |-> parked[1].edges,
                         checklist_items |-> parked[1].checklist_items,
                         frontmatter |-> parked[1].frontmatter],
                        alone[3 - running].document))
    /\ [](\A name \in Statics : lazy[name] <= 1)
    /\ [][/\ (Concurrent /\ running' = running) =>
                /\ parked' = parked
                /\ generate_ids' = generate_ids
          /\ (Concurrent /\ running' # running) =>
                /\ parked'[1] = CallState
                /\ CallState' = parked[1]
          /\ \A name \in Statics : lazy[name] = 1 => lazy'[name] = 1]_vars

\* C21 witness: the first call has returned its document, of one List section,
\* while the second call, begun before, holds text in its buffer and has an event
\* left to take
C21_Witness ==
    /\ Concurrent
    /\ running = 1
    /\ pc = "done"
    /\ Len(sections) = 1
    /\ sections[1].section_type = "List"
    /\ sections[1].id # <<>>
    /\ parked[1].pc = "events"
    /\ parked[1].n = 1
    /\ parked[1].current_content # <<>>
    /\ lazy["CHECKLIST_REGEX"] = 1

\* the step hands an event to the reducer
Taken == n' = n + 1

\* the event handed over by the step
Event == Last(tape')

Started(tag) == Taken /\ Event[1] = "Start" /\ Event[2] = tag

Ended(tag) == Taken /\ Event[1] = "End" /\ Event[2] = tag

\* the step is the end of the stream
StreamEnded == pc = "events" /\ pc' = "done"

\* the step is a handler at a point where it calls flush_section, Start being
\* the handlers that set a kind after the call
FlushAtStart ==
    \/ Started("Heading")
    \/ Started("Paragraph") /\ blockquote_depth = 0 /\ list_depth = 0
    \/ Started("CodeBlock")
    \/ Started("List") /\ list_depth = 0
    \/ Started("BlockQuote") /\ blockquote_depth = 0
    \/ Started("Table")

FlushAtEnd ==
    \/ Ended("Heading")
    \/ Ended("Paragraph") /\ blockquote_depth = 0 /\ list_depth = 0
    \/ Ended("CodeBlock")
    \/ Ended("List") /\ list_depth <= 1
    \/ Ended("BlockQuote") /\ blockquote_depth <= 1
    \/ Ended("Table")
    \/ Taken /\ Event = <<"Rule">>
    \/ StreamEnded

\* the buffer holds a character that is not whitespace
NonBlank(buffer) == \E i \in 1..Len(buffer) : buffer[i] \notin Whitespace

\* the sections and the order index a flushing handler leaves, less the section
\* of the rule that a Rule event appends after its flush
AfterFlush ==
    IF rule_events' # rule_events
    THEN [sections |-> Front(sections'), order_idx |-> order_idx' - 1]
    ELSE [sections |-> sections', order_idx |-> order_idx']

\* C22: a flush appends one section (the active kind, the current level, the
\* trimmed buffer, the next order index, which it then increments) when a kind is
\* active and the buffer is not blank, and otherwise leaves sections and order
\* index alone; after it the buffer is empty, no level is set and no kind is
\* active, until the handler that flushed sets the kind (and level) it starts.
C22_Flush ==
    [][(FlushAtStart \/ FlushAtEnd) =>
          /\ IF current_type # None /\ NonBlank(current_content)
             THEN /\ Len(AfterFlush.sections) = Len(sections) + 1
                  /\ Front(AfterFlush.sections) = sections
                  /\ Last(AfterFlush.sections).section_type = current_type[1]
                  /\ Last(AfterFlush.sections).level = current_level
                  /\ Last(AfterFlush.sections).content = Trim(current_content)
                  /\ Last(AfterFlush.sections).order_idx = order_idx
                  /\ AfterFlush.order_idx = order_idx + 1
             ELSE /\ AfterFlush.sections = sections
                  /\ AfterFlush.order_idx = order_idx
          /\ current_content' = <<>>
          /\ FlushAtEnd => (current_type' = None /\ current_level' = None)
          /\ FlushAtStart =>
                /\ current_type' = Some(KindOf(Event[2]))
                /\ current_level' = Event[3]]_vars

\* C22 witness: the End of a heading of level 2 flushed it into a section
C22_Witness ==
    /\ Len(tape) = 3
    /\ tape[3] = <<"End", "Heading">>
    /\ Len(sections) = 1
    /\ sections[1].section_type = "Heading"
    /\ sections[1].level = Some(2)
    /\ sections[1].order_idx = 0
    /\ order_idx = 1
    /\ current_type = None
    /\ current_level = None
    /\ current_content = <<>>

\* the step appends to sections what a flush appends now: one section of the
\* active kind when the buffer is not blank, nothing otherwise
FlushAppends ==
    IF current_type # None /\ NonBlank(current_content)
    THEN /\ OneMore
         /\ Last(sections').section_type = current_type[1]
         /\ Last(sections').content = Trim(current_content)
         /\ order_idx' = order_idx + 1
    ELSE /\ sections' = sections
         /\ order_idx' = order_idx

\* C23: a Paragraph Start or End at list depth > 0 or blockquote depth > 0
\* changes nothing of the reducer; at depth 0 both flush, and the Start then
\* sets the kind Paragraph.
C23_ParagraphInContainer ==
    [][(Started("Paragraph") \/ Ended("Paragraph")) =>
          IF list_depth > 0 \/ blockquote_depth > 0
          THEN UNCHANGED <<current_content, current_type, current_level,
                           blockquote_depth, list_depth, order_idx, sections, title,
                           all_variables>>
          ELSE /\ FlushAppends
               /\ current_content' = <<>>
               /\ current_level' = None
               /\ current_type' = IF Started("Paragraph") THEN Some("Paragraph") ELSE None
               /\ UNCHANGED <<blockquote_depth, list_depth, title>>]_vars

\* C23 witness: a Paragraph began inside a List whose text is pending
C23_Witness ==
    /\ Len(tape) = 3
    /\ tape[1] = <<"Start", "List", None>>
    /\ tape[3] = <<"Start", "Paragraph", None>>
    /\ list_depth = 1
    /\ current_type = Some("List")
    /\ current_content # <<>>
    /\ sections = <<>>

\* C24: the depths are never negative; the depth of a kind of container changes
\* only at a Start of that kind, by one up, and at an End of that kind above
\* depth 0, by one down; an End at depth 0 leaves it 0, and the reducer goes on
\* taking events.
C24_Depths ==
    /\ [](list_depth >= 0 /\ blockquote_depth >= 0)
    /\ [][/\ list_depth' # list_depth =>
                \/ Started("List") /\ list_depth' = list_depth + 1
                \/ Ended("List") /\ list_depth > 0 /\ list_depth' = list_depth - 1
          /\ blockquote_depth' # blockquote_depth =>
                \/ Started("BlockQuote") /\ blockquote_depth' = blockquote_depth + 1
                \/ /\ Ended("BlockQuote")
                   /\ blockquote_depth > 0
                   /\ blockquote_depth' = blockquote_depth - 1
          /\ Started("List") => list_depth' # list_depth
          /\ Started("BlockQuote") => blockquote_depth' # blockquote_depth
          /\ (Ended("List") /\ list_depth > 0) => list_depth' # list_depth
          /\ (Ended("BlockQuote") /\ blockquote_depth > 0) =>
                blockquote_depth' # blockquote_depth
          /\ (Ended("List") /\ list_depth = 0) => (list_depth' = 0 /\ pc' = "events")
          /\ (Ended("BlockQuote") /\ blockquote_depth = 0) =>
                (blockquote_depth' = 0 /\ pc' = "events")]_vars

\* C24 witness: after a List End at depth 0, a List began and its text became a
\* section of the document
C24_Witness ==
    /\ pc = "done"
    /\ Len(tape) = 3
    /\ tape[1] = <<"End", "List">>
    /\ tape[2] = <<"Start", "List", None>>
    /\ list_depth = 1
    /\ Len(sections) = 1
    /\ sections[1].section_type = "List"

\* everything of the reducer but the buffer
BesidesBuffer ==
    <<current_type, current_level, blockquote_depth, list_depth, order_idx, sections,
      title, all_variables>>

\* C25: a Text or Code event appends its payload to the buffer, a SoftBreak or
\* HardBreak appends one line break, and neither changes anything else; an event
\* of any other kind that is no Start, End or Rule changes nothing.
C25_TextBreakOther ==
    [][/\ (Taken /\ Event[1] = "Text") =>
             /\ current_content' = current_content \o Event[2]
             /\ Event[2] = <<"\n">> =>
                   /\ Len(current_content') = Len(current_content) + 1
                   /\ Front(current_content') = current_content
                   /\ Last(current_content') = "\n"
             /\ UNCHANGED BesidesBuffer
       /\ (Taken /\ Event = <<"Other">>) =>
             /\ UNCHANGED current_content
             /\ UNCHANGED BesidesBuffer]_vars

\* C25 witness: a text, a break and an ignored event inside a Heading
C25_Witness ==
    /\ Len(tape) = 3
    /\ tape[1][1] = "Start"
    /\ tape[2] = <<"Text", <<"\n">> >>
    /\ tape[3] = <<"Other">>
    /\ current_content = <<"\n">>
    /\ current_type = Some("Heading")

\* C26: in every state of the reducer, for any stream, the current level is set
\* iff the active kind is Heading; a section has a level iff it is a Heading, and
\* the level is one of 1..6.
C26_LevelIffHeading ==
    /\ current_level # None <=> current_type = Some("Heading")
    /\ current_level # None => current_level[1] \in 1..6
    /\ \A i \in 1..Len(sections) :
          /\ sections[i].level # None <=> sections[i].section_type = "Heading"
          /\ sections[i].level # None => sections[i].level[1] \in 1..6

\* C26 witness: in a stream that is not well nested, a Heading section with its
\* level, a section of another kind without one, and a Heading under way
C26_Witness ==
    /\ Len(sections) = 2
    /\ sections[1].section_type = "Heading"
    /\ sections[1].level = Some(2)
    /\ sections[2].section_type = "List"
    /\ sections[2].level = None
    /\ current_type = Some("Heading")
    /\ current_level = Some(1)
    /\ list_depth = 1

\* C27: parse returns for every finite stream; the end of the stream flushes, so
\* that a pending section is pushed though its End never came; the buffer is then
\* empty and no kind is active, and the edges are those of the sections after that
\* flush.
C27_Completes ==
    /\ <>(pc = "done")
    /\ [][StreamEnded =>
             /\ FlushAppends
             /\ current_content' = <<>>
             /\ current_type' = None
             /\ Len(edges') = IF sections' = <<>> THEN 0 ELSE Len(sections') - 1]_vars

\* C27 witness: the document has the Paragraph whose End never came
C27_Witness ==
    /\ pc = "done"
    /\ tape = << <<"Start", "Paragraph", None>>, <<"Text", <<"t">> >> >>
    /\ Len(sections) = 1
    /\ sections[1].section_type = "Paragraph"
    /\ sections[1].content = <<"t">>
    /\ current_content = <<>>
    /\ current_type = None

\* C28: while no kind is active, no step pushes a section other than the section
\* of a Rule and none adds a placeholder to the document's; when a kind becomes
\* active the buffer is empty. A flush that leaves the reducer inside a List or
\* BlockQuote leaves no kind active, and the Paragraphs, Lists and BlockQuotes
\* that start inside do not set one.
C28_TextWithoutKindIsLost ==
    [][/\ current_type = None =>
             /\ \/ sections' = sections
                \/ /\ Taken
                   /\ Event = <<"Rule">>
                   /\ OneMore
                   /\ Last(sections').section_type = "HorizontalRule"
             /\ Range(all_variables') = Range(all_variables)
             /\ current_type' # None => current_content' = <<>>
       /\ (FlushAtEnd /\ (list_depth' > 0 \/ blockquote_depth' > 0)) =>
             current_type' = None
       /\ \/ Started("Paragraph") /\ (list_depth > 0 \/ blockquote_depth > 0)
          \/ Started("List") /\ list_depth > 0
          \/ Started("BlockQuote") /\ blockquote_depth > 0
          => UNCHANGED <<current_type, current_content, sections>>]_vars

\* C28 witness: a Rule inside a List flushed, and the text {{a}} received
\* afterwards is in no section, its placeholder not among the document's
C28_Witness ==
    /\ pc = "done"
    /\ tape = << <<"Start", "List", None>>, <<"Rule">>,
                 <<"Text", <<"{", "{", "a", "}", "}">> >> >>
    /\ list_depth = 1
    /\ Len(sections) = 1
    /\ sections[1].section_type = "HorizontalRule"
    /\ all_variables = <<>>

\* how deep the events tp lead into containers of this tag
RECURSIVE TapeDepth(_, _)
TapeDepth(tp, tag) ==
    IF tp = <<>> THEN 0
    ELSE LET d == TapeDepth(Front(tp), tag)
             e == Last(tp)
         IN  IF e[1] = "Start" /\ e[2] = tag THEN d + 1
             ELSE IF e[1] = "End" /\ e[2] = tag /\ d > 0 THEN d - 1
             ELSE d

\* the last of the events tp is one at which a flush happens
TapeFlushes(tp) ==
    LET e == Last(tp)
        lists == TapeDepth(Front(tp), "List")
        quotes == TapeDepth(Front(tp), "BlockQuote")
    IN  \/ e[1] = "Rule"
        \/ /\ e[1] \in {"Start", "End"}
           /\ \/ e[2] \in {"Heading", "CodeBlock", "Table"}
              \/ e[2] = "Paragraph" /\ lists = 0 /\ quotes = 0
              \/ e[2] = "List" /\ (e[1] = "Start" => lists = 0)
                               /\ (e[1] = "End" => lists <= 1)
              \/ e[2] = "BlockQuote" /\ (e[1] = "Start" => quotes = 0)
                                     /\ (e[1] = "End" => quotes <= 1)

\* the payloads of the Text and Code events and the line breaks of tp that came
\* after the last flush, one after the other
RECURSIVE SinceFlush(_)
SinceFlush(tp) ==
    IF tp = <<>> THEN <<>>
    ELSE IF TapeFlushes(tp) THEN <<>>
    ELSE SinceFlush(Front(tp)) \o (IF Last(tp)[1] = "Text" THEN Last(tp)[2] ELSE <<>>)

\* C29: the buffer is the text received since the last flush, nothing put between
\* its pieces; a section that is not a rule has that text trimmed as its content,
\* which is not empty and neither begins nor ends with whitespace, and has as
\* variables the names of the placeholders of its content, in order.
C29_SectionContent ==
    /\ [](pc = "events" => current_content = SinceFlush(tape))
    /\ [](\A i \in 1..Len(sections) :
             sections[i].section_type # "HorizontalRule" =>
                /\ sections[i].content # <<>>
                /\ Head(sections[i].content) \notin Whitespace
                /\ Last(sections[i].content) \notin Whitespace
                /\ sections[i].variables = NamesInOrder(sections[i].content))
    /\ [][\A i \in (Len(sections) + 1)..Len(sections') :
             sections'[i].section_type # "HorizontalRule" =>
                sections'[i].content = Trim(SinceFlush(tape))]_vars

\* C29 witness: a List section made of a blank text and a placeholder, received
\* as two events
C29_Witness ==
    /\ pc = "done"
    /\ tape = << <<"Start", "List", None>>, <<"Text", <<" ">> >>,
                 <<"Text", <<"{", "{", "a", "}", "}">> >> >>
    /\ Len(sections) = 1
    /\ sections[1].content = <<"{", "{", "a", "}", "}">>
    /\ sections[1].variables = << <<"a">> >>

\* C30: a title that is not the empty string is the content of a Heading section
\* of level 1; the End of a level-1 heading with a blank buffer, no title being
\* set, makes the empty string the title and pushes no section; the empty title
\* then stays, whatever level-1 headings follow.
C30_TitleAndSections ==
    /\ []((title # None /\ title # Some(<<>>)) =>
             \E i \in 1..Len(sections) :
                 /\ sections[i].section_type = "Heading"
                 /\ sections[i].level = Some(1)
                 /\ sections[i].content = title[1])
    /\ [][/\ (/\ EndHeading
              /\ title = None
              /\ current_level = Some(1)
              /\ ~NonBlank(current_content)) =>
                 (title' = Some(<<>>) /\ sections' = sections)
          /\ title = Some(<<>>) => title' = Some(<<>>)]_vars

\* C30 witness: a first level-1 heading ended blank, so the title is the empty
\* string and there is no section; a later level-1 heading has received text
C30_Witness ==
    /\ title = Some(<<>>)
    /\ sections = <<>>
    /\ current_type = Some("Heading")
    /\ current_level = Some(1)
    /\ NonBlank(current_content)

====
